---- MODULE Spec2Model ----
(***************************************************************************)
(* Model of src/src/App.jsx: the App component of the wedding-album        *)
(* uploader.  The variables are the component's React state, the token     *)
(* held by window.gapi.client, and the asynchronous work the handlers      *)
(* leave behind (FileReader reads, Drive requests, the token popup, the    *)
(* revoke call).  One action per event handler or callback.  The progress  *)
(* effect (App.jsx 238-252) runs after every commit that changed `files`   *)
(* or `uploadProgress`; it is folded into the actions that change them.    *)
(*                                                                         *)
(* The user's interactions (clicks, selections) are counted in `events`    *)
(* and a behaviour makes at most MaxEvents of them; callbacks are free.    *)
(*                                                                         *)
(* Indices: the code counts files from 0, sequences here count from 1;     *)
(* currentFileIndex keeps the code's 0-based value.                        *)
(***************************************************************************)
EXTENDS Integers, Sequences, FiniteSets, TLC

\* ---------------------------------------------------------------- bounds
MaxFiles == 2      \* longest batch a file dialog hands over
MaxEvents == 4     \* user interactions (clicks, selections) in one behaviour

\* ---------------------------------------------------------- input domains
FileNames == {"a.jpg", "b.jpg"}
Null == "null"
\* err.result?.error?.message of a rejected request: a message, or none
Messages == {"quota exceeded", Null}
Token == "access_token"

RECURSIVE SeqsUpTo(_, _)
SeqsUpTo(S, n) ==
  IF n = 0 THEN {<<>>}
  ELSE LET shorter == SeqsUpTo(S, n - 1)
       IN shorter \cup {Append(s, x) : s \in {t \in shorter : Len(t) = n - 1}, x \in S}

\* the FileLists a change event of the file input can carry (empty when the
\* dialog is cancelled; two files of different folders may share a name)
Batches == SeqsUpTo(FileNames, MaxFiles)

\* ------------------------------------------------------------ configuration
\* Object.keys(GOOGLE_DRIVE_FOLDER_IDS), shortened to three of the seven
\* categories.  "Mehndi" reads VITE_FOLDER_ID_MEHNDI while the documented
\* variable is VITE_FOLDER_ID_MEHDI, so its folder id is undefined.
Categories == <<"Nikkah", "Mehndi", "Baraat">>
CategorySet == {Categories[i] : i \in 1..Len(Categories)}
GOOGLE_DRIVE_FOLDER_IDS ==
  [c \in CategorySet |->
     CASE c = "Nikkah" -> "folder-nikkah"
       [] c = "Baraat" -> "folder-baraat"
       [] OTHER -> Null]

\* ------------------------------------------------------------------ errors
Err(kind, subject, reason) == [kind |-> kind, subject |-> subject, reason |-> reason]
NoError == Err("none", "", "")
ErrConfigMissing == Err("ConfigurationMissing", "", "")
ErrSdkInit == Err("SdkInitFailure", "", "")
ErrToken == Err("AuthFailure", "", "")
ErrGisNotReady == Err("GisNotReady", "", "")
ErrEmptySelection == Err("EmptySelection", "", "")
ErrNotAuthenticated == Err("NotAuthenticated", "", "")
ErrUnconfigured(cat) == Err("UnconfiguredDestination", cat, "")
ErrViewFolder(cat) == Err("FolderNotFound", cat, "")
ErrUpload(name, reason) == Err("UploadFailure", name, reason)

VARIABLES
  configured,        \* API_KEY && CLIENT_ID (fixed at build time)
  files, category, isUploading, uploadProgress, totalProgress,
  currentFileIndex, error,
  gapiReady, gisReady, tokenClient, accessToken,
  gapiInit,          \* gapi.client.init: "none", "pending", "done"
  gisLoading,        \* the GIS script has not called initGisClient yet
  gapiToken,         \* the token window.gapi.client holds (setToken)
  authPending,       \* requestAccessToken whose callback has not run
  revokePending,     \* oauth2.revoke whose callback has not run
  runs,              \* one record per handleUpload that reached its loop
  calls,             \* the Drive Client calls, in the order submitted
  lastOp,            \* the handler or callback that ran last
  events             \* user interactions so far

vars == <<configured, files, category, isUploading, uploadProgress,
          totalProgress, currentFileIndex, error, gapiReady, gisReady,
          tokenClient, accessToken, gapiInit, gisLoading, gapiToken,
          authPending, revokePending, runs, calls, lastOp, events>>

sdkVars == <<gapiReady, gisReady, tokenClient, gapiInit, gisLoading>>
authVars == <<accessToken, authPending, revokePending>>
batchVars == <<files, uploadProgress, totalProgress, currentFileIndex>>

Op(op, res, run, idx, sel) ==
  [op |-> op, res |-> res, run |-> run, idx |-> idx, sel |-> sel]

\* ------------------------------------------------------- derived (render)
allFilesUploaded == Len(files) > 0 /\ totalProgress >= 100
isSignedIn == accessToken # Null
sdkReady == gapiReady /\ gisReady

\* what the render makes clickable
\* the button rendered without waiting for gapiReady and gisReady
SignInButtonShownBeforeReady == ~isSignedIn
SignInButtonShown == sdkReady /\ ~isSignedIn
SignedInControlsShown == sdkReady /\ isSignedIn
\* the select without its disabled={isUploading}
CategorySelectNeverDisabled == SignedInControlsShown
CategorySelectEnabled == SignedInControlsShown /\ ~isUploading
FileButtonEnabled == isSignedIn /\ ~isUploading
UploadButtonEnabled == isSignedIn /\ ~(isUploading \/ Len(files) = 0)
ViewFolderShown == isSignedIn /\ allFilesUploaded

\* ---------------------------------------------------------- progress effect
EmptyProgress == [n \in {} |-> 100]

completedFiles(up) == Cardinality({n \in DOMAIN up : up[n] = 100})

\* (completedFiles / files.length) * 100, kept as the integer part; the
\* comparisons the code and the claims make (== 0, == 100, >= 100) are exact
EffectTotal(fs, up) ==
  IF Len(fs) = 0 THEN 0 ELSE (completedFiles(up) * 100) \div Len(fs)

EffectDone(fs, up) == Len(fs) # 0 /\ completedFiles(up) = Len(fs)

\* the effect after a commit that left files = fs, uploadProgress = up and
\* in which the handler itself set isUploading to upl and the token to tok
ProgressEffect(fs, up, upl, tok) ==
  /\ totalProgress' = EffectTotal(fs, up)
  /\ isUploading' = IF EffectDone(fs, up) THEN FALSE ELSE upl
  /\ gapiToken' = IF EffectDone(fs, up) THEN Null ELSE tok

\* one more user interaction, while the behaviour's budget lasts
UserEvent == events < MaxEvents /\ events' = events + 1

\* ----------------------------------------------------------------- Init
Init ==
  /\ configured \in BOOLEAN
  /\ files = <<>>
  /\ category = Categories[1]
  /\ isUploading = FALSE
  /\ uploadProgress = EmptyProgress
  /\ totalProgress = 0
  /\ currentFileIndex = 0
  /\ error = IF configured THEN NoError ELSE ErrConfigMissing
  /\ gapiReady = FALSE
  /\ gisReady = FALSE
  /\ tokenClient = Null
  /\ accessToken = Null
  /\ gapiInit = IF configured THEN "pending" ELSE "none"
  /\ gisLoading = configured
  /\ gapiToken = Null
  /\ authPending = FALSE
  /\ revokePending = FALSE
  /\ runs = <<>>
  /\ calls = <<>>
  /\ lastOp = Op("mount", "", 0, 0, <<>>)
  /\ events = 0

\* ------------------------------------------------- SDK initialisation
\* gapi.client.init(...).then(() => setGapiReady(true))
initGapiClientOk ==
  /\ UNCHANGED events
  /\ gapiInit = "pending"
  /\ gapiInit' = "done"
  /\ gapiReady' = TRUE
  /\ lastOp' = Op("initGapiClient", "ready", 0, 0, <<>>)
  /\ UNCHANGED <<configured, batchVars, category, isUploading, error, gisReady,
                 tokenClient, gisLoading, authVars, gapiToken, runs, calls>>

\* ... .catch(err => setError(...))
initGapiClientFail ==
  /\ UNCHANGED events
  /\ gapiInit = "pending"
  /\ gapiInit' = "done"
  /\ error' = ErrSdkInit
  /\ lastOp' = Op("initGapiClient", "failed", 0, 0, <<>>)
  /\ UNCHANGED <<configured, batchVars, category, isUploading, gapiReady,
                 gisReady, tokenClient, gisLoading, authVars, gapiToken, runs,
                 calls>>

initGisClient ==
  /\ UNCHANGED events
  /\ gisLoading
  /\ gisLoading' = FALSE
  /\ tokenClient' = "client"
  /\ gisReady' = TRUE
  /\ lastOp' = Op("initGisClient", "", 0, 0, <<>>)
  /\ UNCHANGED <<configured, batchVars, category, isUploading, error, gapiReady,
                 gapiInit, authVars, gapiToken, runs, calls>>

\* ------------------------------------------------------ sign-in, sign-out
handleSignIn ==
  /\ IF tokenClient # Null
       THEN authPending' = TRUE /\ error' = error
       ELSE authPending' = authPending /\ error' = ErrGisNotReady
  /\ lastOp' = Op("handleSignIn", "", 0, 0, <<>>)
  /\ UNCHANGED <<configured, batchVars, category, isUploading, sdkVars,
                 accessToken, revokePending, gapiToken, runs, calls>>

ClickSignIn == SignInButtonShown /\ UserEvent /\ handleSignIn

\* the callback handed to initTokenClient
tokenCallback(valid) ==
  /\ UNCHANGED events
  /\ authPending
  /\ authPending' = FALSE
  /\ IF valid
       THEN accessToken' = Token /\ error' = error
       ELSE accessToken' = accessToken /\ error' = ErrToken
  /\ lastOp' = Op("tokenCallback", IF valid THEN "token" ELSE "invalid", 0, 0, <<>>)
  /\ UNCHANGED <<configured, batchVars, category, isUploading, sdkVars,
                 revokePending, gapiToken, runs, calls>>

handleSignOut ==
  /\ revokePending' = IF accessToken # Null THEN TRUE ELSE revokePending
  /\ lastOp' = Op("handleSignOut", "", 0, 0, <<>>)
  /\ UNCHANGED <<configured, batchVars, category, isUploading, error, sdkVars,
                 accessToken, authPending, gapiToken, runs, calls>>

ClickSignOut == SignedInControlsShown /\ UserEvent /\ handleSignOut

\* the callback handed to oauth2.revoke
revokeCallback ==
  /\ UNCHANGED events
  /\ revokePending
  /\ revokePending' = FALSE
  /\ accessToken' = Null
  /\ lastOp' = Op("revokeCallback", "", 0, 0, <<>>)
  /\ UNCHANGED <<configured, batchVars, category, isUploading, error, sdkVars,
                 authPending, gapiToken, runs, calls>>

\* -------------------------------------------------- selection and category
\* every run started before this selection now belongs to an abandoned batch
Supersede(rs) == [r \in 1..Len(rs) |-> [rs[r] EXCEPT !.superseded = TRUE]]

\* handleFileSelect without its setError(null)
handleFileSelectKeepsError(newFiles) ==
  /\ files' = newFiles
  /\ uploadProgress' = EmptyProgress
  /\ currentFileIndex' = 0
  /\ ProgressEffect(newFiles, EmptyProgress, isUploading, gapiToken)
  /\ runs' = Supersede(runs)
  /\ lastOp' = Op("handleFileSelect", "", 0, 0, newFiles)
  /\ UNCHANGED <<configured, category, error, sdkVars, authVars, calls>>

handleFileSelect(newFiles) ==
  /\ files' = newFiles
  /\ uploadProgress' = EmptyProgress
  /\ currentFileIndex' = 0
  /\ error' = NoError
  /\ ProgressEffect(newFiles, EmptyProgress, isUploading, gapiToken)
  /\ runs' = Supersede(runs)
  /\ lastOp' = Op("handleFileSelect", "", 0, 0, newFiles)
  /\ UNCHANGED <<configured, category, sdkVars, authVars, calls>>

SelectFiles ==
  FileButtonEnabled /\ UserEvent /\ \E newFiles \in Batches : handleFileSelect(newFiles)

\* a handler that also calls setError(null)
handleCategoryChangeClearsError(value) ==
  /\ category' = value
  /\ error' = NoError
  /\ lastOp' = Op("handleCategoryChange", value, 0, 0, <<>>)
  /\ UNCHANGED <<configured, batchVars, isUploading, sdkVars, authVars,
                 gapiToken, runs, calls>>

handleCategoryChange(value) ==
  /\ category' = value
  /\ lastOp' = Op("handleCategoryChange", value, 0, 0, <<>>)
  /\ UNCHANGED <<configured, batchVars, isUploading, error, sdkVars, authVars,
                 gapiToken, runs, calls>>

ChangeCategory ==
  CategorySelectEnabled /\ UserEvent /\ \E value \in CategorySet : handleCategoryChange(value)

handleViewFolder ==
  /\ error' = IF GOOGLE_DRIVE_FOLDER_IDS[category] # Null
                THEN error ELSE ErrViewFolder(category)
  /\ lastOp' = Op("handleViewFolder", "", 0, 0, <<>>)
  /\ UNCHANGED <<configured, batchVars, category, isUploading, sdkVars,
                 authVars, gapiToken, runs, calls>>

ClickViewFolder == ViewFolderShown /\ UserEvent /\ handleViewFolder

\* ------------------------------------------------------------ handleUpload
\* The loop body runs synchronously for every file: it starts one FileReader
\* per file and returns.  folderId, files and category live on in the
\* closures of the onload callbacks.
NewRun ==
  [files |-> files, category |-> category,
   folderId |-> GOOGLE_DRIVE_FOLDER_IDS[category],
   stage |-> [i \in 1..Len(files) |-> "reading"],
   superseded |-> FALSE]

\* the checks of handleUpload without the accessToken check
UploadCheckWithoutToken ==
  IF Len(files) = 0 THEN "EmptySelection"
  ELSE IF GOOGLE_DRIVE_FOLDER_IDS[category] = Null THEN "UnconfiguredDestination"
  ELSE "started"

\* the checks of handleUpload, in the order the code makes them
UploadCheck ==
  IF Len(files) = 0 THEN "EmptySelection"
  ELSE IF accessToken = Null THEN "NotAuthenticated"
  ELSE IF GOOGLE_DRIVE_FOLDER_IDS[category] = Null THEN "UnconfiguredDestination"
  ELSE "started"

handleUpload ==
  IF UploadCheck = "EmptySelection" THEN
    /\ error' = ErrEmptySelection
    /\ lastOp' = Op("handleUpload", "EmptySelection", 0, 0, <<>>)
    /\ UNCHANGED <<configured, batchVars, category, isUploading, sdkVars,
                   authVars, gapiToken, runs, calls>>
  ELSE IF UploadCheck = "NotAuthenticated" THEN
    /\ error' = ErrNotAuthenticated
    /\ lastOp' = Op("handleUpload", "NotAuthenticated", 0, 0, <<>>)
    /\ UNCHANGED <<configured, batchVars, category, isUploading, sdkVars,
                   authVars, gapiToken, runs, calls>>
  ELSE IF UploadCheck = "UnconfiguredDestination" THEN
    /\ gapiToken' = accessToken
    /\ error' = ErrUnconfigured(category)
    /\ isUploading' = FALSE
    /\ lastOp' = Op("handleUpload", "UnconfiguredDestination", 0, 0, <<>>)
    /\ UNCHANGED <<configured, batchVars, category, sdkVars, authVars, runs,
                   calls>>
  ELSE
    /\ isUploading' = TRUE
    /\ error' = NoError
    /\ gapiToken' = accessToken
    /\ currentFileIndex' = Len(files) - 1
    /\ runs' = Append(runs, NewRun)
    /\ lastOp' = Op("handleUpload", "started", Len(runs) + 1, 0, <<>>)
    /\ UNCHANGED <<configured, files, uploadProgress, totalProgress, category,
                   sdkVars, authVars, calls>>

ClickUpload == UploadButtonEnabled /\ UserEvent /\ handleUpload

\* -------------------------------------------- reader.onload, per file
Stage(r, i) == runs[r].stage[i]
SetStage(r, i, st) == [runs EXCEPT ![r].stage[i] = st]
FileName(r, i) == runs[r].files[i]

\* reader.onload up to the await: the request is built and handed to
\* gapi.client.request, which sends it with the token the client holds now
readerOnload(r, i) ==
  /\ UNCHANGED events
  /\ Stage(r, i) = "reading"
  /\ runs' = SetStage(r, i, "requested")
  /\ calls' = Append(calls, [run |-> r, idx |-> i, name |-> FileName(r, i),
                             folderId |-> runs[r].folderId, token |-> gapiToken])
  /\ lastOp' = Op("readerOnload", "", r, i, <<>>)
  /\ UNCHANGED <<configured, batchVars, category, isUploading, error, sdkVars,
                 authVars, gapiToken>>

\* the await resolved: setUploadProgress(prev => ({...prev, [file.name]: 100}))
SetDone(up, name) == [n \in (DOMAIN up) \cup {name} |-> 100]

requestResolved(r, i) ==
  /\ UNCHANGED events
  /\ Stage(r, i) = "requested"
  /\ runs' = SetStage(r, i, "ok")
  /\ uploadProgress' = SetDone(uploadProgress, FileName(r, i))
  /\ ProgressEffect(files, SetDone(uploadProgress, FileName(r, i)),
                    isUploading, gapiToken)
  /\ lastOp' = Op("requestResolved", "", r, i, <<>>)
  /\ UNCHANGED <<configured, files, currentFileIndex, category, error, sdkVars,
                 authVars, calls>>

\* err.result?.error?.message || 'Unknown error'
FailureReason(message) == IF message = Null THEN "Unknown error" ELSE message

\* the await threw: the catch block
requestRejected(r, i, message) ==
  /\ UNCHANGED events
  /\ Stage(r, i) = "requested"
  /\ runs' = SetStage(r, i, "failed")
  /\ error' = ErrUpload(FileName(r, i), FailureReason(message))
  /\ isUploading' = FALSE
  /\ gapiToken' = Null
  /\ lastOp' = Op("requestRejected", "", r, i, <<>>)
  /\ UNCHANGED <<configured, batchVars, category, sdkVars, authVars, calls>>

Tasks == UNION {{<<r, i>> : i \in 1..Len(runs[r].files)} : r \in 1..Len(runs)}

\* The reads run in parallel, so the load events arrive in any order; the
\* Drive Client accepts or rejects each request as it sees fit.
ReaderLoads == \E t \in Tasks : readerOnload(t[1], t[2])
RequestSucceeds == \E t \in Tasks : requestResolved(t[1], t[2])
RequestFails ==
  \E t \in Tasks : \E message \in Messages : requestRejected(t[1], t[2], message)

\* ------------------------------------------------------------------- Next
Next ==
  \/ initGapiClientOk
  \/ initGapiClientFail
  \/ initGisClient
  \/ ClickSignIn
  \/ \E valid \in BOOLEAN : tokenCallback(valid)
  \/ ClickSignOut
  \/ revokeCallback
  \/ SelectFiles
  \/ ChangeCategory
  \/ ClickViewFolder
  \/ ClickUpload
  \/ ReaderLoads
  \/ RequestSucceeds
  \/ RequestFails

\* the component as its rendered controls drive it
Spec == Init /\ [][Next]_vars

\* handleUpload invoked although its button is not rendered (signed out) or is
\* disabled for an empty batch: the handler's own validation (App.jsx
\* 179-186) is then what stands between the call and the Drive Client
CallHandleUpload == UserEvent /\ (~isSignedIn \/ Len(files) = 0) /\ handleUpload

NextDirect == Next \/ CallHandleUpload

SpecDirect == Init /\ [][NextDirect]_vars

TypeOK ==
  /\ files \in Batches
  /\ category \in CategorySet
  /\ isUploading \in BOOLEAN
  /\ DOMAIN uploadProgress \subseteq FileNames
  /\ totalProgress \in Nat
  /\ accessToken \in {Null, Token}
  /\ gapiToken \in {Null, Token}
  /\ Len(runs) <= MaxEvents
  /\ events \in 0..MaxEvents

\* ============================================================== claims
\* vocabulary of the claims
RunIds == 1..Len(runs)
Idx(r) == 1..Len(runs[r].files)
Resolved(r, i) == Stage(r, i) \in {"ok", "failed"}
Submitted(r, i) == Stage(r, i) # "reading"
RunAllOk(r) == \A i \in Idx(r) : Stage(r, i) = "ok"
\* the files of run r in the order their Drive Client calls were submitted
RECURSIVE CallOrder(_, _)
CallOrder(r, k) ==
  IF k = 0 THEN <<>>
  ELSE IF calls[k].run = r THEN Append(CallOrder(r, k - 1), calls[k].idx)
  ELSE CallOrder(r, k - 1)
\* the step submits the call of file i of run r
Submits(r, i) == Stage(r, i) = "reading" /\ runs'[r].stage[i] = "requested"
\* the step delivers the result of the call of file i of run r
Succeeds(r, i) == Stage(r, i) = "requested" /\ runs'[r].stage[i] = "ok"
Fails(r, i) == Stage(r, i) = "requested" /\ runs'[r].stage[i] = "failed"
\* the step is a user interaction handled by op
UserStep(op) == events' = events + 1 /\ lastOp'.op = op

\* C1: within one run at most one Drive Client call is outstanding, and the
\* call of a file is not submitted before the calls of all earlier files of
\* the run have resolved.
C1_OneCallAtATime ==
  \A r \in RunIds :
    /\ Cardinality({i \in Idx(r) : Stage(r, i) = "requested"}) <= 1
    /\ \A i \in Idx(r) : \A j \in Idx(r) :
         (i < j /\ Submitted(r, j)) => Resolved(r, i)

\* C2: a run in which every upload succeeded called the Drive Client exactly
\* once per file of its batch, in selection order.
C2_OncePerFileInOrder ==
  \A r \in RunIds :
    RunAllOk(r) => CallOrder(r, Len(calls)) = [i \in Idx(r) |-> i]

\* C3: when the call of a file fails the run state becomes idle and the last
\* error names the file and the reason; afterwards no later file of that run
\* is submitted, and no later result of that run changes error or progress.
C3_FailFast ==
  [][\A r \in RunIds : \A i \in Idx(r) :
       /\ Fails(r, i) =>
            /\ ~isUploading'
            /\ error'.kind = "UploadFailure"
            /\ error'.subject = FileName(r, i)
            /\ error'.reason \in {FailureReason(m) : m \in Messages}
       /\ (\E h \in Idx(r) : h < i /\ Stage(r, h) = "failed") =>
            /\ ~Submits(r, i)
            /\ (Succeeds(r, i) \/ Fails(r, i)) =>
                 error' = error /\ uploadProgress' = uploadProgress]_vars

\* C4: when the last call of a run succeeds, every call of the run having
\* succeeded, totalProgress is 100 and the run state is allDone.
C4_AllDoneAfterSuccess ==
  [][\A r \in RunIds :
       (~RunAllOk(r) /\ \A i \in Idx(r) : runs'[r].stage[i] = "ok") =>
         totalProgress' = 100 /\ ~isUploading' /\ allFilesUploaded']_vars

\* C5: when a run completes with every file uploaded the credential is
\* cleared (isSignedIn false), and a startUpload issued next fails with
\* NotAuthenticated.
C5_CredentialClearedOnCompletion ==
  [][/\ \A r \in RunIds :
          (~RunAllOk(r) /\ (\A i \in Idx(r) : runs'[r].stage[i] = "ok")
             /\ allFilesUploaded') => ~isSignedIn'
     /\ (lastOp.op = "requestResolved" /\ allFilesUploaded
           /\ UserStep("handleUpload")) => lastOp'.res = "NotAuthenticated"]_vars

\* C6: handleUpload with an empty batch, or with no access token, records
\* the validation error, starts no read and no Drive Client call, and leaves
\* the run state and uploadProgress as they were.
C6_ValidationRejects ==
  [][(UserStep("handleUpload") /\ (Len(files) = 0 \/ accessToken = Null)) =>
       /\ error' = IF Len(files) = 0 THEN ErrEmptySelection ELSE ErrNotAuthenticated
       /\ calls' = calls
       /\ runs' = runs
       /\ isUploading' = isUploading
       /\ uploadProgress' = uploadProgress]_vars

C6_Witness ==
  /\ lastOp.op = "handleUpload"
  /\ lastOp.res = "NotAuthenticated"
  /\ Len(files) > 0
  /\ error = ErrNotAuthenticated
  /\ ~isUploading
  /\ calls = <<>>

\* C7: handleFileSelect replaces the batch with the new files, leaves
\* uploadProgress empty and the error absent, and changes neither the access
\* token nor the token of the Drive client.
C7_SelectResets ==
  [][UserStep("handleFileSelect") =>
       /\ files' = lastOp'.sel
       /\ uploadProgress' = EmptyProgress
       /\ error' = NoError
       /\ accessToken' = accessToken
       /\ gapiToken' = gapiToken]_vars

\* a selection made after a run left an error and a progress entry behind
C7_Witness ==
  /\ lastOp.op = "handleFileSelect"
  /\ Len(files) > 0
  /\ uploadProgress = EmptyProgress
  /\ error = NoError
  /\ \E r \in RunIds :
       /\ \E i \in Idx(r) : Stage(r, i) = "failed"
       /\ \E i \in Idx(r) : Stage(r, i) = "ok"

\* C8: the result of a call that belongs to a batch since replaced changes
\* neither uploadProgress, nor totalProgress, nor the run state, nor the error.
C8_LateResultIgnored ==
  [][\A r \in RunIds : \A i \in Idx(r) :
       (runs[r].superseded /\ (Succeeds(r, i) \/ Fails(r, i))) =>
         /\ uploadProgress' = uploadProgress
         /\ totalProgress' = totalProgress
         /\ isUploading' = isUploading
         /\ error' = error]_vars

\* C9: a startUpload issued while uploading starts nothing and changes
\* nothing, and the calls of two runs never overlap: no run has a file unread
\* or a call outstanding while another run has one.
Unfinished(r) == \E i \in Idx(r) : ~Resolved(r, i)

C9_RunsNeverOverlap ==
  /\ [][(isUploading /\ UserStep("handleUpload")) =>
          /\ runs' = runs
          /\ calls' = calls
          /\ isUploading' = isUploading
          /\ error' = error
          /\ gapiToken' = gapiToken]_vars
  /\ [](\A r \in RunIds : \A q \in RunIds :
          (r # q) => ~(Unfinished(r) /\ Unfinished(q)))

\* C10: the category does not change while uploading, and every call of a
\* run goes to the folder of the category that was active when the run began.
C10_DestinationFixed ==
  /\ [][isUploading => category' = category]_vars
  /\ [](\A k \in DOMAIN calls :
          calls[k].folderId = GOOGLE_DRIVE_FOLDER_IDS[runs[calls[k].run].category])

\* a call submitted after the category was changed to one with another folder
C10_Witness ==
  /\ lastOp.op = "readerOnload"
  /\ category # runs[lastOp.run].category
  /\ GOOGLE_DRIVE_FOLDER_IDS[category] # runs[lastOp.run].folderId
  /\ calls[Len(calls)].folderId = runs[lastOp.run].folderId

\* the files of the current batch, by position, whose Drive Client call has
\* succeeded since the batch was selected
CompletedOfBatch ==
  {i \in 1..Len(files) :
     \E r \in RunIds : ~runs[r].superseded /\ Stage(r, i) = "ok"}

\* C11: totalProgress is 100 * completedCount / totalCount over the files of
\* the current batch, 0 for an empty batch, and so lies between 0 and 100.
C11_TotalProgressFormula ==
  /\ totalProgress =
       IF Len(files) = 0 THEN 0
       ELSE (100 * Cardinality(CompletedOfBatch)) \div Len(files)
  /\ totalProgress \in 0..100

\* C12: every entry of uploadProgress is 100; the entry of a file of the
\* batch is present only if that file's Drive Client call has succeeded since
\* the batch was selected; an entry disappears only in a selection, which
\* empties the whole map.
C12_ProgressMonotonic ==
  [][/\ \A n \in DOMAIN uploadProgress' : uploadProgress'[n] = 100
     /\ \A i \in 1..Len(files') :
          files'[i] \in DOMAIN uploadProgress' =>
            \E r \in 1..Len(runs') :
              ~runs'[r].superseded /\ runs'[r].stage[i] = "ok"
     /\ ((DOMAIN uploadProgress) \ (DOMAIN uploadProgress') # {}) =>
          UserStep("handleFileSelect") /\ uploadProgress' = EmptyProgress]_vars

\* C13: a handleCategoryChange step sets the category to the chosen value and
\* leaves the batch, uploadProgress, totalProgress, the error, the run state
\* and both tokens as they were; with the active category chosen again the
\* whole program state is unchanged.
C13_CategoryOnly ==
  [][UserStep("handleCategoryChange") =>
       /\ category' = lastOp'.res
       /\ UNCHANGED <<configured, batchVars, isUploading, error, sdkVars,
                      authVars, gapiToken, runs, calls>>
       /\ (lastOp'.res = category =>
             UNCHANGED <<configured, category, batchVars, isUploading, error,
                         sdkVars, authVars, gapiToken, runs, calls>>)]_vars

\* the category was changed after an upload left progress and an error behind
C13_Witness ==
  /\ lastOp.op = "handleCategoryChange"
  /\ category = lastOp.res
  /\ error # NoError
  /\ uploadProgress # EmptyProgress
  /\ Len(files) > 0

\* C14: a handleUpload step taken with a non-empty batch, a credential and no
\* destination configured for the active category records the
\* UnconfiguredDestination error, starts no run and makes no Drive call, ends
\* idle with uploadProgress unchanged, and leaves the credential and the token
\* held by the Drive client as they were before the call.
C14_UnconfiguredLeavesCredential ==
  [][(/\ UserStep("handleUpload")
      /\ Len(files) > 0
      /\ accessToken # Null
      /\ GOOGLE_DRIVE_FOLDER_IDS[category] = Null) =>
       /\ error' = ErrUnconfigured(category)
       /\ ~isUploading'
       /\ UNCHANGED <<runs, calls, files, uploadProgress, totalProgress>>
       /\ UNCHANGED <<accessToken, gapiToken>>]_vars

\* C15: every Drive call was submitted while the Drive client held a
\* credential: the token is never cleared while files of a run are still to
\* be submitted.
C15_CredentialAtSubmission ==
  \A k \in DOMAIN calls : calls[k].token # Null

\* C17: whenever the App is not uploading, every file of every run has been
\* read, submitted and resolved: no Drive call is outstanding or waiting.
C17_IdleMeansQuiescent ==
  ~isUploading => \A r \in RunIds : \A i \in Idx(r) : Resolved(r, i)

\* C16: a credential is present (or being requested) only if the configuration
\* is present and both SDKs have reported ready; hence no upload run is started
\* and no Drive call is submitted with the configuration missing, after a
\* failed SDK initialisation, or before both SDKs are ready.
C16_CredentialNeedsReadySdks ==
  /\ (accessToken # Null \/ authPending) =>
       configured /\ gapiReady /\ gisReady
  /\ (runs # <<>> \/ calls # <<>> \/ gapiToken # Null) =>
       configured /\ gapiReady /\ gisReady

\* signed in and a Drive call submitted
C16_Witness ==
  /\ accessToken # Null
  /\ Len(calls) > 0
  /\ configured /\ gapiReady /\ gisReady

\* C18: allFilesUploaded holds only if every file of the current batch has had
\* a Drive call succeed since the batch was selected; in particular not for a
\* batch for which no upload run was started.
C18_CompleteMeansUploaded ==
  allFilesUploaded =>
    /\ \E r \in RunIds : ~runs[r].superseded
    /\ CompletedOfBatch = 1..Len(files)

\* C19: the App is never left uploading with no Drive call of any run unread,
\* outstanding or unresolved, and a run of the current batch whose calls have
\* all succeeded has ended with allFilesUploaded and totalProgress 100; both
\* also for a batch with two files of the same name.
C19_RunLeavesUploading ==
  /\ isUploading => \E r \in RunIds : Unfinished(r)
  /\ \A r \in RunIds :
       (~runs[r].superseded /\ RunAllOk(r)) =>
         allFilesUploaded /\ totalProgress = 100

====
